---- MODULE Spec2Model ----
(***************************************************************************)
(* Key pool of the MailTester rotation service: the .env watcher           *)
(* (performSync, createDebounced, startWatching), the health checker       *)
(* (validateKey, performHealthCheck, removeSubscriptionFromEnv,            *)
(* startScheduler), the HTTP routes of routes/keys.js, and the key manager *)
(* they all call.                                                          *)
(*                                                                         *)
(* The .env file is modelled by its three key variables, each in canonical *)
(* form (entries already split on ',' and trimmed, no empty entries):      *)
(*   json : MAILTESTER_KEYS_JSON       - sequence of [id, plan] items      *)
(*   csv  : MAILTESTER_KEYS_WITH_PLAN  - sequence of [id, plan] pairs      *)
(*   list : MAILTESTER_KEYS            - sequence of ids                   *)
(* plus MAILTESTER_DEFAULT_PLAN.  A JSON id may carry surrounding blanks   *)
(* (the parser trims it, the remover compares it raw); a plan token may be *)
(* upper-case ("PRO") or missing ("", which takes the default plan).       *)
(***************************************************************************)
EXTENDS Integers, Sequences, FiniteSets, TLC

VARIABLES
  now,        \* Date.now(), in ms
  pool,       \* key manager store: id -> record or NoKey
  env,        \* content of the .env file
  calls,      \* log of keyManager.registerKey / deleteKey calls
  passes,     \* performSync runs, in start order
  hc,         \* the health checker: the cron task and the performHealthCheck run
  timer,      \* createDebounced: the closure variable `timer`
  timers,     \* the runtime's pending timeouts: set of [h, due]
  nextHandle, \* next timeout handle handed out by setTimeout
  watching,   \* fs.watch watcher is open
  closed,     \* startWatching: the closure variable `closed`
  notes,      \* times at which the fs.watch callback ran, oldest first
  callers,    \* reserve(id) calls in flight
  resp        \* last HTTP response of the router

vars == <<now, pool, env, calls, passes, hc, timer, timers, nextHandle,
          watching, closed, notes, callers, resp>>

----------------------------------------------------------------------------
(* Bounds of the model *)

MaxEntries == 2     \* total number of entries over the three .env variables
MaxPasses == 2      \* performSync runs per behaviour
MaxNotes == 3       \* fs.watch notifications per behaviour
MaxTime == 600      \* time horizon in ms
NumCallers == 2     \* concurrent reserve() callers
NumPoolCallers == 1 \* clients calling reserve() next to HTTP requests
MaxHttp == 2        \* HTTP requests that reach the key manager
MaxEdits == 1       \* edits of the .env file while the watcher runs
MaxCycles == 2      \* health cycles per behaviour

Ids == {"k1", "k2"}
IdOrder == <<"k1", "k2">>          \* order in which the store lists keys
RawIds == Ids \cup {" k1 "}        \* ids as written inside the JSON text
Plans == {"pro", "ultimate"}
PlanToks == {"", "PRO"}            \* plan as written in the .env file
DefaultPlans == {"", "pro"}        \* MAILTESTER_DEFAULT_PLAN ("" = unset)
TickSteps == {100, 150}            \* amounts by which time advances

NoKey == [plan |-> "undefined", windowCount |-> 0, windowStart |-> 0,
          nextAllowedAt |-> 0, active |-> FALSE]
NoId == ""
NoPlan == "undefined"
NoTimer == 0

----------------------------------------------------------------------------
(* String helpers, by what they do on the tokens of the model *)

\* String.prototype.trim
Trim(s) == IF s = " k1 " THEN "k1" ELSE IF s = " " THEN "" ELSE s

\* String.prototype.toLowerCase
ToLowerCase(s) == IF s = "PRO" THEN "pro" ELSE s

\* x || y on strings: the empty string is falsy
OrElse(x, y) == IF x = "" THEN y ELSE x

Range(s) == {s[i] : i \in DOMAIN s}

SeqsOfLen(S, n) == [1..n -> S]

----------------------------------------------------------------------------
(* .env content *)

JsonItems == [id : RawIds, plan : PlanToks]
CsvEntries == [id : Ids, plan : PlanToks]

EnvContents ==
  UNION { UNION { UNION {
    [defaultPlan : DefaultPlans,
     json : SeqsOfLen(JsonItems, a),
     csv : SeqsOfLen(CsvEntries, b),
     list : SeqsOfLen(Ids, c)]
    : c \in 0..(MaxEntries - a - b) }
    : b \in 0..(MaxEntries - a) }
    : a \in 0..MaxEntries }

EmptyEnv == [defaultPlan |-> "", json |-> <<>>, csv |-> <<>>, list |-> <<>>]

\* a MAILTESTER_KEYS_JSON text that JSON.parse rejects
NotJson == <<[id |-> "not json", plan |-> ""]>>

\* .env contents as a hand-edited file may hold them: JSON items and id:plan
\* entries without an id, and a JSON text that does not parse
LooseJsonItems == JsonItems \cup {[id |-> "", plan |-> "PRO"]}
LooseCsvEntries == CsvEntries \cup {[id |-> "", plan |-> "PRO"]}

LooseEnvContents ==
  UNION { UNION { UNION {
    [defaultPlan : DefaultPlans,
     json : IF a = 1 THEN SeqsOfLen(LooseJsonItems, a) \cup {NotJson}
                     ELSE SeqsOfLen(LooseJsonItems, a),
     csv : SeqsOfLen(LooseCsvEntries, b),
     list : SeqsOfLen(Ids, c)]
    : c \in 0..(MaxEntries - a - b) }
    : b \in 0..(MaxEntries - a) }
    : a \in 0..MaxEntries }

----------------------------------------------------------------------------
(* watcher: parseKeysFromEnv *)

normalizePlan(plan) ==
  IF ToLowerCase(plan) = "pro" THEN "pro" ELSE "ultimate"

defaultPlanOf(envVars) == ToLowerCase(OrElse(envVars.defaultPlan, "ultimate"))

\* JSON.parse and the for-loop over the parsed array; a text that does not
\* parse leaves jsonKeys empty
jsonKeysOf(envVars) ==
  LET kept == SelectSeq(envVars.json, LAMBDA e : Trim(e.id) /= "")
  IN IF envVars.json = NotJson THEN <<>>
     ELSE [i \in DOMAIN kept |->
             [id |-> Trim(kept[i].id),
              plan |-> normalizePlan(OrElse(kept[i].plan, defaultPlanOf(envVars)))]]

csvKeysOf(envVars) ==
  LET kept == SelectSeq(envVars.csv, LAMBDA e : Trim(e.id) /= "")
  IN [i \in DOMAIN kept |->
        [id |-> Trim(kept[i].id),
         plan |-> normalizePlan(OrElse(kept[i].plan, defaultPlanOf(envVars)))]]

listKeysOf(envVars) ==
  [i \in DOMAIN envVars.list |->
     [id |-> Trim(envVars.list[i]),
      plan |-> normalizePlan(defaultPlanOf(envVars))]]

parseKeysFromEnvAllForms(envVars) ==
  jsonKeysOf(envVars) \o csvKeysOf(envVars) \o listKeysOf(envVars)

parseKeysFromEnv(envVars) ==
  IF Len(jsonKeysOf(envVars)) > 0 THEN jsonKeysOf(envVars)
  ELSE IF Len(envVars.csv) > 0 /\ Len(csvKeysOf(envVars)) > 0
         THEN csvKeysOf(envVars)
  ELSE IF Len(envVars.list) > 0 THEN listKeysOf(envVars)
  ELSE <<>>

\* Map.set: an existing id keeps its position and takes the new plan
MapSet(m, id, plan) ==
  IF \E i \in DOMAIN m : m[i].id = id
    THEN [i \in DOMAIN m |->
            IF m[i].id = id THEN [id |-> id, plan |-> plan] ELSE m[i]]
    ELSE Append(m, [id |-> id, plan |-> plan])

RECURSIVE MapOfKeys(_, _)
MapOfKeys(keys, m) ==
  IF keys = <<>> THEN m
  ELSE MapOfKeys(Tail(keys), MapSet(m, Head(keys).id, Head(keys).plan))

\* performSync: desiredMap, in insertion order
desiredMapOf(envVars) == MapOfKeys(parseKeysFromEnv(envVars), <<>>)

MapHas(m, id) == \E i \in DOMAIN m : m[i].id = id
MapGet(m, id) ==
  IF MapHas(m, id) THEN (CHOOSE e \in Range(m) : e.id = id).plan ELSE NoPlan
MapIds(m) == {e.id : e \in Range(m)}

----------------------------------------------------------------------------
(* key manager (src/keyManager.js), after sections 3 and 4.1 of the design: *)
(* a removed key is deleted outright                                       *)

PlanLimit(plan) == IF plan = "pro" THEN 1 ELSE 2
WindowDurationMs == 300

FreshKey(plan, t) ==
  [plan |-> plan, windowCount |-> 0, windowStart |-> t, nextAllowedAt |-> t,
   active |-> TRUE]

registerKey(pl, id, plan, t) ==
  IF pl[id] = NoKey
    THEN [pl EXCEPT ![id] = FreshKey(plan, t)]
    ELSE [pl EXCEPT ![id].plan = plan]

\* deleteKey: the record is removed; an unknown id is a no-op
deleteKeyLazy(pl, id) ==
  IF pl[id] = NoKey THEN pl ELSE [pl EXCEPT ![id].active = FALSE]
deleteKey(pl, id) == [pl EXCEPT ![id] = NoKey]

ActiveIds(pl) == {id \in Ids : pl[id] /= NoKey}

getAllKeysStatus(pl) ==
  LET ids == SelectSeq(IdOrder, LAMBDA id : pl[id] /= NoKey)
  IN [i \in DOMAIN ids |-> [id |-> ids[i], plan |-> pl[ids[i]].plan]]

\* getAvailableKeysSnapshot: every active key with its nextAllowedAt
getAvailableKeysSnapshot(pl) ==
  LET ids == SelectSeq(IdOrder, LAMBDA id : pl[id] /= NoKey)
  IN [i \in DOMAIN ids |->
        [id |-> ids[i], plan |-> pl[ids[i]].plan,
         nextRequestAllowedAt |-> pl[ids[i]].nextAllowedAt]]

Call(by, pass, op, id, plan, ok) ==
  [by |-> by, pass |-> pass, op |-> op, id |-> id, plan |-> plan, ok |-> ok]

----------------------------------------------------------------------------
(* key manager: reserve(id), an atomic compare-and-update on the key record *)

IdleCaller == [pc |-> "idle", id |-> NoId, snap |-> NoKey, result |-> "none",
               win |-> 0]

\* the record after one reservation attempt at time t, and whether it grants
ReserveLimitInclusive(rec, t) ==
  LET cur == IF t >= rec.windowStart + WindowDurationMs
               THEN [rec EXCEPT !.windowCount = 0, !.windowStart = t]
               ELSE rec
  IN IF cur.windowCount <= PlanLimit(cur.plan)
       THEN [granted |-> TRUE,
             rec |-> [cur EXCEPT !.windowCount = @ + 1, !.nextAllowedAt = t]]
       ELSE [granted |-> FALSE,
             rec |-> [cur EXCEPT !.nextAllowedAt = cur.windowStart + WindowDurationMs]]

ReserveOutcome(rec, t) ==
  LET cur == IF t >= rec.windowStart + WindowDurationMs
               THEN [rec EXCEPT !.windowCount = 0, !.windowStart = t]
               ELSE rec
  IN IF cur.windowCount < PlanLimit(cur.plan)
       THEN [granted |-> TRUE,
             rec |-> [cur EXCEPT !.windowCount = @ + 1, !.nextAllowedAt = t]]
       ELSE [granted |-> FALSE,
             rec |-> [cur EXCEPT !.nextAllowedAt = cur.windowStart + WindowDurationMs]]

\* the update is applied only when the record is still the one that was read
BlindUpdate(current, snap) == TRUE
CompareAndUpdate(current, snap) == current = snap

\* reserve(id): read the record
ReserveRead(c) ==
  /\ callers[c].pc = "idle"
  /\ \E id \in Ids :
       callers' = [callers EXCEPT ![c] =
         IF pool[id] = NoKey
           THEN [@ EXCEPT !.pc = "done", !.id = id, !.result = "nokey"]
           ELSE [@ EXCEPT !.pc = "read", !.id = id, !.snap = pool[id]]]
  /\ UNCHANGED <<now, pool, env, calls, passes, hc, timer, timers, nextHandle,
                 watching, closed, notes, resp>>

\* reserve(id): write the updated record, or read again when it has changed
ReserveWrite(c) ==
  /\ callers[c].pc = "read"
  /\ LET id == callers[c].id
         out == ReserveOutcome(callers[c].snap, now)
     IN IF CompareAndUpdate(pool[id], callers[c].snap)
          THEN /\ pool' = [pool EXCEPT ![id] = out.rec]
               /\ callers' = [callers EXCEPT ![c].pc = "done",
                                ![c].result = IF out.granted THEN "granted"
                                                             ELSE "denied",
                                ![c].win = out.rec.windowStart]
          ELSE /\ callers' = [callers EXCEPT ![c] =
                    IF pool[id] = NoKey
                      THEN [@ EXCEPT !.pc = "done", !.result = "nokey"]
                      ELSE [@ EXCEPT !.snap = pool[id]]]
               /\ UNCHANGED pool
  /\ UNCHANGED <<now, env, calls, passes, hc, timer, timers, nextHandle,
                 watching, closed, notes, resp>>

\* the caller has its answer and may call again
ReserveReturn(c) ==
  /\ callers[c].pc = "done"
  /\ callers' = [callers EXCEPT ![c] = IdleCaller]
  /\ UNCHANGED <<now, pool, env, calls, passes, hc, timer, timers, nextHandle,
                 watching, closed, notes, resp>>

----------------------------------------------------------------------------
(* watcher: performSync *)

\* line 298: the key is already in the desired state
SkipWhenPresent(currentPlan, plan) == currentPlan /= NoPlan
NeverInDesiredState(currentPlan, plan) == FALSE
InDesiredState(currentPlan, plan) == currentPlan /= NoPlan /\ currentPlan = plan

NewPass(src) ==
  [pc |-> "list", src |-> src, at |-> now,
   desired |-> desiredMapOf(env), existing |-> <<>>, i |-> 1,
   failed |-> FALSE, afterCleanup |-> closed, read |-> TRUE, listed |-> FALSE]

\* runSync: performSync up to its first await
runSync(src) == passes' = Append(passes, NewPass(src))

PassesIdle == \A p \in DOMAIN passes : passes[p].pc = "done"

\* the runSync() call of startWatching, or of a later event, with no other
\* pass in flight
RunSync ==
  /\ Len(passes) < MaxPasses
  /\ PassesIdle
  /\ runSync(IF passes = <<>> THEN "start" ELSE "event")
  /\ UNCHANGED <<now, pool, env, calls, hc, timer, timers, nextHandle,
                 watching, closed, notes, callers, resp>>

\* a runSync() call that finds the .env file unreadable: parseEnvFile returns
\* null and parseKeysFromEnv(null) returns []
RunSyncUnreadable ==
  /\ Len(passes) < MaxPasses
  /\ PassesIdle
  /\ passes' = Append(passes,
       [NewPass(IF passes = <<>> THEN "start" ELSE "event")
          EXCEPT !.desired = <<>>, !.read = FALSE])
  /\ UNCHANGED <<now, pool, env, calls, hc, timer, timers, nextHandle,
                 watching, closed, notes, callers, resp>>

\* await keyManager.getAllKeysStatus(); a storage error rejects the pass
SyncList(p) ==
  /\ p \in DOMAIN passes
  /\ passes[p].pc = "list"
  /\ \E ok \in BOOLEAN :
       passes' = [passes EXCEPT ![p] =
         IF ok
           THEN [@ EXCEPT !.pc = "reg", !.existing = getAllKeysStatus(pool),
                          !.listed = TRUE]
           ELSE [@ EXCEPT !.pc = "done", !.failed = TRUE]]
  /\ UNCHANGED <<now, pool, env, calls, hc, timer, timers, nextHandle,
                 watching, closed, notes, callers, resp>>

\* one iteration of the loop over desiredMap.entries()
SyncRegister(p) ==
  /\ p \in DOMAIN passes
  /\ passes[p].pc = "reg"
  /\ LET ps == passes[p]
     IN IF ps.i > Len(ps.desired)
          THEN /\ passes' = [passes EXCEPT ![p].pc = "del", ![p].i = 1]
               /\ UNCHANGED <<pool, calls>>
        ELSE LET e == ps.desired[ps.i]
             IN IF InDesiredState(MapGet(ps.existing, e.id), e.plan)
                  THEN /\ passes' = [passes EXCEPT ![p].i = @ + 1]
                       /\ UNCHANGED <<pool, calls>>
                  ELSE \E ok \in BOOLEAN :
                         /\ pool' = IF ok THEN registerKey(pool, e.id, e.plan, now)
                                          ELSE pool
                         /\ calls' = Append(calls,
                              Call("sync", p, "register", e.id, e.plan, ok))
                         /\ passes' = [passes EXCEPT ![p].i = @ + 1,
                                         ![p].failed = @ \/ ~ok]
  /\ UNCHANGED <<now, env, hc, timer, timers, nextHandle,
                 watching, closed, notes, callers, resp>>

\* one iteration of the loop over existingMap.keys()
SyncDelete(p) ==
  /\ p \in DOMAIN passes
  /\ passes[p].pc = "del"
  /\ LET ps == passes[p]
     IN IF ps.i > Len(ps.existing)
          THEN /\ passes' = [passes EXCEPT ![p].pc = "done"]
               /\ UNCHANGED <<pool, calls>>
        ELSE LET id == ps.existing[ps.i].id
             IN IF MapHas(ps.desired, id)
                  THEN /\ passes' = [passes EXCEPT ![p].i = @ + 1]
                       /\ UNCHANGED <<pool, calls>>
                  ELSE \E ok \in BOOLEAN :
                         /\ pool' = IF ok THEN deleteKey(pool, id) ELSE pool
                         /\ calls' = Append(calls,
                              Call("sync", p, "delete", id, NoPlan, ok))
                         /\ passes' = [passes EXCEPT ![p].i = @ + 1,
                                         ![p].failed = @ \/ ~ok]
  /\ UNCHANGED <<now, env, hc, timer, timers, nextHandle,
                 watching, closed, notes, callers, resp>>

----------------------------------------------------------------------------
(* watcher: createDebounced and startWatching *)

DebounceDelayMs == 250

\* setTimeout / clearTimeout on the runtime's table of pending timeouts
SetTimeout(ts, h, due) == ts \cup {[h |-> h, due |-> due]}
ClearTimeoutIgnored(ts, h) == ts
ClearTimeout(ts, h) == {t \in ts : t.h /= h}

\* a timeout that is due runs before any callback of a later event
NoTimeoutDue == \A t \in timers : now < t.due

\* startWatching: the first runSync() and fs.watch
StartWatching ==
  /\ ~watching
  /\ ~closed
  /\ passes = <<>>
  /\ runSync("start")
  /\ watching' = TRUE
  /\ UNCHANGED <<now, pool, env, calls, hc, timer, timers, nextHandle,
                 closed, notes, callers, resp>>

\* the fs.watch callback ('change' or 'rename'): debouncedSync()
FileChange ==
  /\ watching
  /\ NoTimeoutDue
  /\ Len(notes) < MaxNotes
  /\ timers' = SetTimeout(IF timer /= NoTimer THEN ClearTimeout(timers, timer)
                                               ELSE timers,
                          nextHandle, now + DebounceDelayMs)
  /\ timer' = nextHandle
  /\ nextHandle' = nextHandle + 1
  /\ notes' = Append(notes, now)
  /\ UNCHANGED <<now, pool, env, calls, passes, hc, watching, closed,
                 callers, resp>>

\* the timeout callback of createDebounced: timer = null; fn()
TimerFire ==
  /\ \E t \in timers :
       /\ now >= t.due
       /\ timers' = timers \ {t}
  /\ timer' = NoTimer
  /\ runSync("event")
  /\ UNCHANGED <<now, pool, env, calls, hc, nextHandle, watching, closed,
                 notes, callers, resp>>

\* the cleanup function returned by startWatching
Cleanup ==
  /\ watching
  /\ ~closed
  /\ closed' = TRUE
  /\ watching' = FALSE
  /\ UNCHANGED <<now, pool, env, calls, passes, hc, timer, timers, nextHandle,
                 notes, callers, resp>>

Tick(steps, horizon) ==
  /\ \E d \in steps :
       /\ now + d <= horizon
       /\ now' = now + d
  /\ UNCHANGED <<pool, env, calls, passes, hc, timer, timers, nextHandle,
                 watching, closed, notes, callers, resp>>

----------------------------------------------------------------------------
(* health checker: removeSubscriptionFromEnv *)

removeIdFromJson(value, id) ==
  LET filtered == SelectSeq(value, LAMBDA item : item.id /= id)
  IN IF value = NotJson THEN value
     ELSE IF Len(filtered) /= Len(value) THEN filtered ELSE value

removeIdFromCsv(value, id) ==
  SelectSeq(value, LAMBDA entry : Trim(entry.id) /= id)

removeIdFromList(value, id) ==
  SelectSeq(value, LAMBDA entry : entry /= id)

\* the loop over priorityKeys: the first variable that changes ends it
removeSubscriptionFromEnv(envContent, id) ==
  IF envContent.json /= <<>> /\ removeIdFromJson(envContent.json, id) /= envContent.json
    THEN [content |-> [envContent EXCEPT !.json = removeIdFromJson(@, id)],
          modified |-> TRUE]
  ELSE IF envContent.csv /= <<>> /\ removeIdFromCsv(envContent.csv, id) /= envContent.csv
    THEN [content |-> [envContent EXCEPT !.csv = removeIdFromCsv(@, id)],
          modified |-> TRUE]
  ELSE IF envContent.list /= <<>> /\ removeIdFromList(envContent.list, id) /= envContent.list
    THEN [content |-> [envContent EXCEPT !.list = removeIdFromList(@, id)],
          modified |-> TRUE]
  ELSE [content |-> envContent, modified |-> FALSE]

----------------------------------------------------------------------------
(* health checker: validateKey and performHealthCheck *)

\* what axios.get can produce: a response (2xx), or an error that carries a
\* response (any other status) or none (timeout, network error: status 0)
Probe(thrown, status, code) ==
  [thrown |-> thrown, status |-> status, code |-> code]
ProbeOutcomes ==
  {Probe(FALSE, 200, "ok"), Probe(FALSE, 200, "ko"), Probe(FALSE, 204, ""),
   Probe(TRUE, 401, ""), Probe(TRUE, 403, ""), Probe(TRUE, 500, ""),
   Probe(TRUE, 0, "")}
NoProbe == Probe(FALSE, 0, "")

AuthRejected(o) == o.thrown /\ o.status \in {401, 403}

validateKeyKeepsAuthRejected(o) ==
  IF ~o.thrown
    THEN IF o.status = 200 /\ o.code /= "" THEN o.code = "ok" ELSE FALSE
    ELSE IF o.status \in {401, 403} THEN TRUE ELSE FALSE

validateKey(o) ==
  IF ~o.thrown
    THEN IF o.status = 200 /\ o.code /= "" THEN o.code = "ok" ELSE FALSE
    ELSE IF o.status \in {401, 403} THEN FALSE ELSE FALSE

\* a performHealthCheck call that has not got its list of keys yet
IdleHc ==
  [pc |-> "idle", keys |-> <<>>, i |-> 1, envContent |-> EmptyEnv,
   cleanedIds |-> <<>>, outcome |-> [id \in Ids |-> NoProbe],
   deleteFailed |-> {}, wrote |-> "no", callsAt |-> 0,
   task |-> "none", cycles |-> 0, stopAt |-> "never"]

\* startScheduler: runCheck() and cron.schedule
StartScheduler ==
  /\ hc.task = "none"
  /\ hc.pc = "off"
  /\ hc' = [hc EXCEPT !.pc = "idle", !.task = "scheduled", !.cycles = 1]
  /\ UNCHANGED <<now, pool, env, calls, passes, timer, timers, nextHandle,
                 watching, closed, notes, callers, resp>>

\* the cron task fires: runCheck(); the cycle before it has ended long ago
CronFire ==
  /\ hc.task = "scheduled"
  /\ hc.pc = "done"
  /\ hc.cycles < MaxCycles
  /\ hc' = [IdleHc EXCEPT !.task = hc.task, !.cycles = hc.cycles + 1,
                          !.stopAt = hc.stopAt]
  /\ UNCHANGED <<now, pool, env, calls, passes, timer, timers, nextHandle,
                 watching, closed, notes, callers, resp>>

\* line 180: task.stop()
StopTaskIgnored(task) == task
StopTask(task) == "stopped"

\* the stop function returned by startScheduler
StopScheduler ==
  /\ hc.task /= "none"
  /\ hc.stopAt = "never"
  /\ hc' = [hc EXCEPT !.task = StopTask(@), !.stopAt = hc.pc]
  /\ UNCHANGED <<now, pool, env, calls, passes, timer, timers, nextHandle,
                 watching, closed, notes, callers, resp>>

\* runCheck: getAllKeysStatus, then readEnv (null becomes '')
HealthBegin ==
  /\ hc.pc = "idle"
  /\ \E listOk \in BOOLEAN, readOk \in BOOLEAN :
       LET keys == getAllKeysStatus(pool)
       IN hc' = IF ~listOk \/ keys = <<>>
                  THEN [hc EXCEPT !.pc = "done"]
                  ELSE [hc EXCEPT !.pc = "probe",
                                  !.keys = [i \in DOMAIN keys |-> keys[i].id],
                                  !.callsAt = Len(calls),
                                  !.envContent = IF readOk THEN env ELSE EmptyEnv]
  /\ UNCHANGED <<now, pool, env, calls, passes, timer, timers, nextHandle,
                 watching, closed, notes, callers, resp>>

\* await validateKey(subscriptionId); a valid key goes on to the pacing delay
HealthProbe ==
  /\ hc.pc = "probe"
  /\ hc.i <= Len(hc.keys)
  /\ \E o \in ProbeOutcomes :
       hc' = IF validateKey(o)
               THEN [hc EXCEPT !.outcome[hc.keys[hc.i]] = o, !.i = @ + 1]
               ELSE [hc EXCEPT !.outcome[hc.keys[hc.i]] = o, !.pc = "evict"]
  /\ UNCHANGED <<now, pool, env, calls, passes, timer, timers, nextHandle,
                 watching, closed, notes, callers, resp>>

\* lines 159-161: a deleteKey that throws is logged and the loop goes on
RethrowDeleteError(h, id) ==
  [h EXCEPT !.pc = "done", !.deleteFailed = @ \cup {id}]
CatchDeleteError(h, id) ==
  [h EXCEPT !.pc = "probe", !.i = @ + 1, !.deleteFailed = @ \cup {id}]

\* the !isValid branch: deleteKey, then the removal from the .env text held
\* in memory; a storage error is logged and the key is left alone
HealthEvict ==
  /\ hc.pc = "evict"
  /\ LET id == hc.keys[hc.i]
         result == removeSubscriptionFromEnv(hc.envContent, id)
     IN \E ok \in BOOLEAN :
          /\ pool' = IF ok THEN deleteKey(pool, id) ELSE pool
          /\ calls' = Append(calls, Call("health", 0, "delete", id, NoPlan, ok))
          /\ hc' = IF ok
                     THEN [hc EXCEPT !.pc = "probe", !.i = @ + 1,
                                     !.cleanedIds = Append(@, id),
                                     !.envContent = IF result.modified
                                                      THEN result.content ELSE @]
                     ELSE CatchDeleteError(hc, id)
  /\ UNCHANGED <<now, env, passes, timer, timers, nextHandle,
                 watching, closed, notes, callers, resp>>

\* after the loop: writeEnv when a key was cleaned; a write error is logged
HealthWrite ==
  /\ hc.pc = "probe"
  /\ hc.i > Len(hc.keys)
  /\ IF hc.cleanedIds /= <<>>
       THEN \E ok \in BOOLEAN :
              /\ env' = IF ok THEN hc.envContent ELSE env
              /\ hc' = [hc EXCEPT !.pc = "done",
                                  !.wrote = IF ok THEN "ok" ELSE "failed"]
       ELSE /\ hc' = [hc EXCEPT !.pc = "done"]
            /\ UNCHANGED env
  /\ UNCHANGED <<now, pool, calls, passes, timer, timers, nextHandle,
                 watching, closed, notes, callers, resp>>

----------------------------------------------------------------------------
(* router: POST /keys and DELETE /keys/:id *)


Body(subscriptionId, id, plan) ==
  [subscriptionId |-> subscriptionId, id |-> id, plan |-> plan]

HttpCalls == SelectSeq(calls, LAMBDA c : c.by = "http")

Response(status, message, id) ==
  [status |-> status, message |-> message, id |-> id, keys |-> <<>>]

\* line 87: the arguments handed to keyManager.registerKey
RegisterArgsRawPlan(subId, normalizedPlan, body) ==
  [id |-> subId, plan |-> body.plan]
RegisterArgs(subId, normalizedPlan, body) ==
  [id |-> subId, plan |-> normalizedPlan]

\* line 83: the plan check
PlanAcceptedWhenGiven(normalizedPlan) == normalizedPlan /= ""
PlanAccepted(normalizedPlan) == normalizedPlan \in {"pro", "ultimate"}

PostKeys(body) ==
  LET subId == Trim(OrElse(body.subscriptionId, body.id))
      normalizedPlan == ToLowerCase(body.plan)
      args == RegisterArgs(subId, normalizedPlan, body)
  IN IF subId = ""
       THEN /\ resp' = Response(400, "subscriptionId or id is required", subId)
            /\ UNCHANGED <<pool, calls>>
     ELSE IF ~PlanAccepted(normalizedPlan)
       THEN /\ resp' = Response(400, "plan must be pro or ultimate", subId)
            /\ UNCHANGED <<pool, calls>>
     ELSE \E storeOk \in BOOLEAN :
            LET ok == storeOk /\ args.plan \in Plans
            IN /\ pool' = IF ok THEN registerKey(pool, args.id, args.plan, now)
                                ELSE pool
               /\ calls' = Append(calls,
                    Call("http", 0, "register", args.id, args.plan, ok))
               /\ resp' = IF ok THEN Response(201, "registered", subId)
                                ELSE Response(500, "Internal server error", subId)

PostKeysRequest(bodies, limit) ==
  /\ Len(HttpCalls) < limit
  /\ \E body \in bodies : PostKeys(body)
  /\ UNCHANGED <<now, env, passes, hc, timer, timers, nextHandle,
                 watching, closed, notes, callers>>

\* DELETE /keys/:id
DeleteKeysNotFound(id) ==
  IF id = ""
    THEN /\ resp' = Response(400, "id parameter is required", id)
         /\ UNCHANGED <<pool, calls>>
  ELSE IF pool[id] = NoKey
    THEN /\ resp' = Response(404, "not found", id)
         /\ UNCHANGED <<pool, calls>>
    ELSE \E ok \in BOOLEAN :
           /\ pool' = IF ok THEN deleteKey(pool, id) ELSE pool
           /\ calls' = Append(calls, Call("http", 0, "delete", id, NoPlan, ok))
           /\ resp' = IF ok THEN Response(200, "deleted", id)
                            ELSE Response(500, "Internal server error", id)

DeleteKeys(id) ==
  IF id = ""
    THEN /\ resp' = Response(400, "id parameter is required", id)
         /\ UNCHANGED <<pool, calls>>
    ELSE \E ok \in BOOLEAN :
           /\ pool' = IF ok THEN deleteKey(pool, id) ELSE pool
           /\ calls' = Append(calls, Call("http", 0, "delete", id, NoPlan, ok))
           /\ resp' = IF ok THEN Response(200, "deleted", id)
                            ELSE Response(500, "Internal server error", id)

DeleteKeysRequest(ids, limit) ==
  /\ Len(HttpCalls) < limit
  /\ \E id \in ids : DeleteKeys(id)
  /\ UNCHANGED <<now, env, passes, hc, timer, timers, nextHandle,
                 watching, closed, notes, callers>>

\* GET /key/available, line 32: Math.max((key.nextRequestAllowedAt || 0) - now, 0)
MathMax(a, b) == IF a >= b THEN a ELSE b
nextRequestInMsSigned(nextRequestAllowedAt, t) == nextRequestAllowedAt - t
nextRequestInMs(nextRequestAllowedAt, t) == MathMax(nextRequestAllowedAt - t, 0)

GetKeyAvailable ==
  /\ \E ok \in BOOLEAN :
       LET keys == getAvailableKeysSnapshot(pool)
           payload == [i \in DOMAIN keys |->
                         [id |-> keys[i].id, plan |-> keys[i].plan,
                          nextRequestAllowedAt |-> keys[i].nextRequestAllowedAt,
                          nextRequestInMs |->
                            nextRequestInMs(keys[i].nextRequestAllowedAt, now)]]
       IN resp' = IF ~ok THEN Response(500, "Internal server error", NoId)
                  ELSE IF payload = <<>>
                         THEN [Response(200, "wait", NoId) EXCEPT !.keys = payload]
                         ELSE [Response(200, "ok", NoId) EXCEPT !.keys = payload]
  /\ UNCHANGED <<now, pool, env, calls, passes, hc, timer, timers, nextHandle,
                 watching, closed, notes, callers>>

\* request bodies as clients may send them
AnyBodies ==
  {Body(sid, id, plan) : sid \in {"", " ", " k1 "}, id \in {"", "k2"},
                         plan \in {"", "PRO", "ultimate", "basic"}}

\* requests that name a key of the model with a valid plan
ValidBodies ==
  {Body(" k1 ", "", plan) : plan \in {"PRO", "ultimate"}}
    \cup {Body("", "k2", "PRO")}

----------------------------------------------------------------------------
(* Initial states *)

Pools0 ==
  {pl \in [Ids -> {NoKey} \cup {FreshKey(plan, 0) : plan \in Plans}] : TRUE}

InitIdle ==
  /\ now = 0
  /\ calls = <<>>
  /\ passes = <<>>
  /\ timer = NoTimer
  /\ timers = {}
  /\ nextHandle = 1
  /\ watching = FALSE
  /\ closed = FALSE
  /\ notes = <<>>
  /\ callers = [c \in 1..NumCallers |-> IdleCaller]
  /\ resp = [status |-> 0, message |-> "", id |-> NoId, keys |-> <<>>]

InitRest ==
  /\ hc = IdleHc
  /\ InitIdle

\* reconciliation passes run one after the other, over every .env content
InitSync ==
  /\ pool \in Pools0
  /\ env \in EnvContents
  /\ InitRest

NextSync ==
  \/ RunSync
  \/ \E p \in 1..MaxPasses : SyncList(p)
  \/ \E p \in 1..MaxPasses : SyncRegister(p)
  \/ \E p \in 1..MaxPasses : SyncDelete(p)

SpecSync == InitSync /\ [][NextSync]_vars

----------------------------------------------------------------------------
(* health cycle, then the reconciliation its .env write triggers *)

PoolOf(m) ==
  [id \in Ids |-> IF MapHas(m, id) THEN FreshKey(MapGet(m, id), 0) ELSE NoKey]

\* the fs.watch callback after the health checker wrote the .env file
SyncAfterWrite ==
  /\ hc.pc = "done"
  /\ hc.wrote = "ok"
  /\ passes = <<>>
  /\ runSync("event")
  /\ UNCHANGED <<now, pool, env, calls, hc, timer, timers, nextHandle,
                 watching, closed, notes, callers, resp>>

\* a health cycle next to one POST /keys request, over every pool and the .env
\* contents of at most one entry with default plans
HealthEnvs ==
  {e \in EnvContents :
     /\ Len(e.json) + Len(e.csv) + Len(e.list) <= 1
     /\ e.defaultPlan = ""
     /\ \A x \in Range(e.json) \cup Range(e.csv) : x.plan = ""}

InitHealth ==
  /\ pool \in Pools0
  /\ env \in HealthEnvs
  /\ InitRest

NextHealth ==
  \/ HealthBegin
  \/ HealthProbe
  \/ HealthEvict
  \/ HealthWrite
  \/ PostKeysRequest(ValidBodies, 1)

SpecHealth == InitHealth /\ [][NextHealth]_vars

\* a health cycle and the reconciliation pass that follows its .env write,
\* over every .env content; the pool starts as the start-up reconciliation
\* of that content left it
InitEvict ==
  /\ env \in EnvContents
  /\ pool = PoolOf(desiredMapOf(env))
  /\ InitRest

NextEvict ==
  \/ HealthBegin
  \/ HealthProbe
  \/ HealthEvict
  \/ HealthWrite
  \/ SyncAfterWrite
  \/ \E p \in 1..MaxPasses : SyncList(p)
  \/ \E p \in 1..MaxPasses : SyncRegister(p)
  \/ \E p \in 1..MaxPasses : SyncDelete(p)

SpecEvict == InitEvict /\ [][NextEvict]_vars

\* the watcher from startWatching on: change notifications, the debounce
\* timeout and cleanup, up to the start of each pass (the passes themselves
\* run under SpecSync and SpecEvict)
InitWatch ==
  /\ env \in HealthEnvs
  /\ pool = PoolOf(desiredMapOf(env))
  /\ InitRest

NextWatch ==
  \/ StartWatching
  \/ FileChange
  \/ TimerFire
  \/ Cleanup
  \/ Tick(TickSteps, MaxTime)

SpecWatch == InitWatch /\ [][NextWatch]_vars

\* POST /keys with any request body, next to DELETE /keys/:id
InitPost ==
  /\ pool \in Pools0
  /\ env = EmptyEnv
  /\ InitRest

NextPost ==
  \/ PostKeysRequest(AnyBodies, MaxHttp)
  \/ DeleteKeysRequest(Ids, MaxHttp)

SpecPost == InitPost /\ [][NextPost]_vars

\* reconciliation passes over hand-edited .env contents and an .env file
\* that cannot be read, on a pool that holds k1
InitParse ==
  /\ env \in LooseEnvContents
  /\ pool = PoolOf(<<[id |-> "k1", plan |-> "ultimate"]>>)
  /\ InitRest

NextParse ==
  \/ RunSync
  \/ RunSyncUnreadable
  \/ \E p \in 1..MaxPasses : SyncList(p)
  \/ \E p \in 1..MaxPasses : SyncRegister(p)
  \/ \E p \in 1..MaxPasses : SyncDelete(p)

SpecParse == InitParse /\ [][NextParse]_vars

\* a health cycle and then the reconciliation passes that later change
\* notifications start, on every pool, with an .env file that names both keys
\* or none
BatchEnvs == {EmptyEnv, [EmptyEnv EXCEPT !.list = IdOrder]}

RunSyncAfterCycle ==
  /\ hc.pc = "done"
  /\ RunSync

InitBatch ==
  /\ pool \in Pools0
  /\ env \in BatchEnvs
  /\ InitRest

NextBatch ==
  \/ HealthBegin
  \/ HealthProbe
  \/ HealthEvict
  \/ HealthWrite
  \/ RunSyncAfterCycle
  \/ \E p \in 1..MaxPasses : SyncList(p)
  \/ \E p \in 1..MaxPasses : SyncRegister(p)
  \/ \E p \in 1..MaxPasses : SyncDelete(p)

SpecBatch == InitBatch /\ [][NextBatch]_vars

\* GET /key/available next to clients that call reserve() again and again,
\* over one change of rate window
InitAvailable ==
  /\ pool \in Pools0
  /\ env = EmptyEnv
  /\ InitRest

NextAvailable ==
  \/ \E c \in 1..NumPoolCallers : ReserveRead(c)
  \/ \E c \in 1..NumPoolCallers : ReserveWrite(c)
  \/ \E c \in 1..NumPoolCallers : ReserveReturn(c)
  \/ GetKeyAvailable
  \/ Tick({WindowDurationMs}, WindowDurationMs)

SpecAvailable == InitAvailable /\ [][NextAvailable]_vars

\* the watcher with its reconciliation passes, which overlap when a pass is
\* still waiting for the store as the next one starts, while the .env file
\* is edited
ConvergeEnvs == {EmptyEnv, [EmptyEnv EXCEPT !.list = <<"k1">>]}

\* the file is rewritten and fs.watch runs its callback: debouncedSync()
EditEnv ==
  /\ watching
  /\ NoTimeoutDue
  /\ Len(notes) < MaxEdits
  /\ \E e \in ConvergeEnvs \ {env} : env' = e
  /\ timers' = SetTimeout(IF timer /= NoTimer THEN ClearTimeout(timers, timer)
                                               ELSE timers,
                          nextHandle, now + DebounceDelayMs)
  /\ timer' = nextHandle
  /\ nextHandle' = nextHandle + 1
  /\ notes' = Append(notes, now)
  /\ UNCHANGED <<now, pool, calls, passes, hc, watching, closed,
                 callers, resp>>

InitConverge ==
  /\ env \in ConvergeEnvs
  /\ pool = PoolOf(desiredMapOf(env))
  /\ InitRest

NextConverge ==
  \/ StartWatching
  \/ EditEnv
  \/ TimerFire
  \/ Tick({DebounceDelayMs}, MaxTime)
  \/ \E p \in 1..(MaxEdits + 1) : SyncList(p)
  \/ \E p \in 1..(MaxEdits + 1) : SyncRegister(p)
  \/ \E p \in 1..(MaxEdits + 1) : SyncDelete(p)

SpecConverge == InitConverge /\ [][NextConverge]_vars

\* the health scheduler from startScheduler on: the cycle at start, the
\* cycles the cron task starts, and stop; a cycle that has begun goes on
HealthStep == HealthBegin \/ HealthProbe \/ HealthEvict \/ HealthWrite

InitSched ==
  /\ pool \in Pools0
  /\ env = [EmptyEnv EXCEPT !.list = IdOrder]
  /\ hc = [IdleHc EXCEPT !.pc = "off"]
  /\ InitIdle

NextSched ==
  \/ StartScheduler
  \/ CronFire
  \/ StopScheduler
  \/ HealthBegin
  \/ HealthProbe
  \/ HealthEvict
  \/ HealthWrite

SpecSched == InitSched /\ [][NextSched]_vars /\ WF_vars(HealthStep)

\* concurrent reserve() calls alone
InitReserve ==
  /\ pool \in Pools0
  /\ env = EmptyEnv
  /\ InitRest

NextReserve ==
  \/ \E c \in 1..NumCallers : ReserveRead(c)
  \/ \E c \in 1..NumCallers : ReserveWrite(c)
  \/ Tick(TickSteps, MaxTime)

SpecReserve == InitReserve /\ [][NextReserve]_vars

\* clients that call reserve() again and again, next to POST /keys and
\* DELETE /keys/:id requests for key k1, over one change of rate window
K1Bodies == {Body(" k1 ", "", "PRO"), Body("", "k1", "ultimate")}

InitPool ==
  /\ pool \in {pl \in Pools0 : pl["k2"] = NoKey}
  /\ env = EmptyEnv
  /\ InitRest

NextPool ==
  \/ \E c \in 1..NumPoolCallers : ReserveRead(c)
  \/ \E c \in 1..NumPoolCallers : ReserveWrite(c)
  \/ \E c \in 1..NumPoolCallers : ReserveReturn(c)
  \/ PostKeysRequest(K1Bodies, MaxHttp)
  \/ DeleteKeysRequest({"k1"}, MaxHttp)
  \/ Tick({WindowDurationMs}, WindowDurationMs)

SpecPool == InitPool /\ [][NextPool]_vars

\* POST /keys and DELETE /keys/:id requests for key k1 next to clients that
\* each call reserve() once, within one rate window
NextRemove ==
  \/ \E c \in 1..NumPoolCallers : ReserveRead(c)
  \/ \E c \in 1..NumPoolCallers : ReserveWrite(c)
  \/ PostKeysRequest(K1Bodies, MaxHttp)
  \/ DeleteKeysRequest({"k1"}, MaxHttp)

SpecRemove == InitPool /\ [][NextRemove]_vars

----------------------------------------------------------------------------
(* Reconciliation: claims C3 and C4 *)

CallsOf(p, op) ==
  SelectSeq(calls, LAMBDA c : c.by = "sync" /\ c.pass = p /\ c.op = op)

\* what a pass has to register and to delete, given the pool it listed
ToRegister(ps) ==
  {e \in Range(ps.desired) : MapGet(ps.existing, e.id) /= e.plan}
ToDelete(ps) ==
  {e.id : e \in Range(ps.existing)} \ MapIds(ps.desired)

PassClean(p) == passes[p].pc = "done" /\ ~passes[p].failed

\* C3: reconciliation is idempotent. When a pass has run to completion without
\* storage errors and the next pass runs with the same desired state and no
\* other mutation in between, the second pass makes no registerKey and no
\* deleteKey call.
C3_SecondPassMakesNoCalls ==
  \A p \in DOMAIN passes :
    (/\ p + 1 \in DOMAIN passes
     /\ PassClean(p)
     /\ passes[p + 1].desired = passes[p].desired)
    => /\ CallsOf(p + 1, "register") = <<>>
       /\ CallsOf(p + 1, "delete") = <<>>

\* a first pass that registered and deleted, followed by a completed second
\* pass
C3_Witness ==
  /\ Len(passes) = 2
  /\ PassClean(1)
  /\ PassClean(2)
  /\ CallsOf(1, "register") /= <<>>
  /\ CallsOf(1, "delete") /= <<>>
  /\ CallsOf(2, "register") = <<>>
  /\ CallsOf(2, "delete") = <<>>

\* C4: a pass run in isolation without storage errors calls registerKey(id,
\* plan) exactly once for each desired id that is absent from the pool or has
\* another plan there, calls deleteKey(id) exactly once for each active id that
\* is not desired, and leaves the pool equal to the desired-state map.
C4_PassAppliesExactDiff ==
  \A p \in DOMAIN passes :
    PassClean(p) =>
      LET ps == passes[p]
          regs == CallsOf(p, "register")
          dels == CallsOf(p, "delete")
      IN /\ {[id |-> c.id, plan |-> c.plan] : c \in Range(regs)} = ToRegister(ps)
         /\ Len(regs) = Cardinality(ToRegister(ps))
         /\ {c.id : c \in Range(dels)} = ToDelete(ps)
         /\ Len(dels) = Cardinality(ToDelete(ps))
         /\ p = Len(passes) =>
              /\ ActiveIds(pool) = MapIds(ps.desired)
              /\ \A id \in ActiveIds(pool) : pool[id].plan = MapGet(ps.desired, id)

\* a completed pass that changed the plan of one key and deleted another
C4_Witness ==
  /\ Len(passes) = 1
  /\ PassClean(1)
  /\ \E c \in Range(CallsOf(1, "register")) :
       MapGet(passes[1].existing, c.id) \notin {NoPlan, c.plan}
  /\ CallsOf(1, "delete") /= <<>>

----------------------------------------------------------------------------
(* Health validation: claims C1, C2 and C7 *)

HealthDeletes == SelectSeq(calls, LAMBDA c : c.by = "health" /\ c.op = "delete")

StatusIds(pl) == {k.id : k \in Range(getAllKeysStatus(pl))}

\* registerKey calls for id made since the health cycle listed the keys
RegisteredSinceCycleStart(id) ==
  \E n \in DOMAIN calls :
    n > hc.callsAt /\ calls[n].op = "register" /\ calls[n].id = id

\* C1: a health cycle calls deleteKey for a key only when that key's probe was
\* an explicit authorization rejection (HTTP 401/403); after any other outcome
\* that is not a success the key is retained.
C1_EvictsOnlyAuthRejected ==
  \A c \in Range(HealthDeletes) : AuthRejected(hc.outcome[c.id])

\* C2: once a health cycle has completed, every key of its snapshot whose probe
\* was an explicit authorization rejection is absent from getAllKeysStatus(),
\* provided its deleteKey did not fail in the store and the key was not
\* registered again meanwhile.
C2_AuthRejectedKeyAbsentAfterCycle ==
  hc.pc = "done" =>
    \A id \in Range(hc.keys) :
      (/\ AuthRejected(hc.outcome[id])
       /\ id \notin hc.deleteFailed
       /\ ~RegisteredSinceCycleStart(id))
      => id \notin StatusIds(pool)

\* a completed cycle that evicted an authorization-rejected key while the
\* other key was registered over HTTP
C2_Witness ==
  /\ hc.pc = "done"
  /\ \E id \in Range(hc.keys) :
       /\ AuthRejected(hc.outcome[id])
       /\ id \in Range(hc.cleanedIds)
       /\ id \notin StatusIds(pool)
       /\ \E other \in Ids \ {id} : RegisteredSinceCycleStart(other)

\* C7: when a health cycle evicted a key and wrote the .env file, the
\* reconciliation pass that reads the written file does not call registerKey
\* for that key, whichever of the three .env variables name it.
C7_EvictedKeyNotResurrected ==
  \A p \in DOMAIN passes :
    hc.wrote = "ok" =>
      \A id \in Range(hc.cleanedIds) :
        \A c \in Range(CallsOf(p, "register")) : c.id /= id

----------------------------------------------------------------------------
(* Debounce and shutdown: claims C5 and C6 *)

EventPasses == SelectSeq(passes, LAMBDA ps : ps.src = "event")

\* a burst is a maximal run of notifications, each less than the debounce
\* delay after the one before
BurstFirsts ==
  {j \in DOMAIN notes : j = 1 \/ notes[j] - notes[j - 1] >= DebounceDelayMs}
BurstLasts ==
  {j \in DOMAIN notes :
     j = Len(notes) \/ notes[j + 1] - notes[j] >= DebounceDelayMs}
Kth(S, k) == CHOOSE j \in S : Cardinality({i \in S : i <= j}) = k
NumBursts == Cardinality(BurstLasts)

\* C5: every burst of change notifications starts exactly one reconciliation
\* pass, and the pass starts only when the debounce delay has elapsed since
\* the last notification of the burst (and before the next burst begins).
C5_OnePassPerBurst ==
  /\ Len(EventPasses) = IF timers = {} THEN NumBursts ELSE NumBursts - 1
  /\ \A k \in DOMAIN EventPasses :
       /\ EventPasses[k].at >= notes[Kth(BurstLasts, k)] + DebounceDelayMs
       /\ k < NumBursts => EventPasses[k].at <= notes[Kth(BurstFirsts, k + 1)]

\* a burst of two notifications and a later single one, one pass for each
C5_Witness ==
  /\ Len(notes) = 3
  /\ notes[2] > notes[1]
  /\ BurstLasts = {2, 3}
  /\ Len(EventPasses) = 2
  /\ timers = {}

\* C6: no reconciliation pass starts once the cleanup function returned by
\* startWatching has been called, also when a debounce timeout was pending at
\* that moment.
C6_NoPassAfterCleanup ==
  \A p \in DOMAIN passes : ~passes[p].afterCleanup

----------------------------------------------------------------------------
(* Rate limit and registration: claims C8, C9 and C10 *)

WithinLimit(rec) == rec.windowCount <= PlanLimit(rec.plan)

\* C8 as stated: in every reachable state every active key has
\* windowCount <= maxRequestsPerWindow(plan), also across a plan change of an
\* existing key.
C8_WindowCountWithinLimit ==
  \A id \in ActiveIds(pool) : WithinLimit(pool[id])

\* registerKey moved an existing key to a plan with a lower limit
PlanLowered(a, b) ==
  a /= NoKey /\ b /= NoKey /\ PlanLimit(b.plan) < PlanLimit(a.plan)

\* C8 amended: every step other than a registerKey that lowers the limit of
\* an existing key keeps windowCount <= maxRequestsPerWindow(plan); every
\* granted reserve leaves windowCount within the limit of the key's plan and,
\* when it does not start a new window, strictly increases windowCount.
C8_LimitKeptExceptWhenPlanLowered ==
  [][/\ \A id \in Ids :
          (/\ pool'[id] /= NoKey
           /\ ~PlanLowered(pool[id], pool'[id])
           /\ pool[id] = NoKey \/ WithinLimit(pool[id]))
          => WithinLimit(pool'[id])
     /\ \A c \in 1..NumCallers :
          (callers[c].pc = "read" /\ callers'[c].result = "granted")
          => LET a == pool[callers[c].id]
                 b == pool'[callers[c].id]
             IN /\ WithinLimit(b)
                /\ b.windowStart = a.windowStart => b.windowCount > a.windowCount
    ]_vars

\* a key upgraded over HTTP whose window was then filled to the new limit
C8_Witness ==
  /\ pool["k1"] /= NoKey
  /\ pool["k1"].plan = "ultimate"
  /\ pool["k1"].windowCount = PlanLimit("ultimate")
  /\ \E c \in Range(HttpCalls) : c.op = "register" /\ c.ok /\ c.plan = "ultimate"
  /\ \E c \in 1..NumCallers : callers[c].result = "granted"

Min(a, b) == IF a < b THEN a ELSE b

\* reserve calls on id decided in the window that started at w
DecidedIn(id, w) ==
  {c \in 1..NumCallers :
     callers[c].result \in {"granted", "denied"}
       /\ callers[c].id = id /\ callers[c].win = w}
GrantedIn(id, w) == {c \in DecidedIn(id, w) : callers[c].result = "granted"}

\* C9: of the concurrent reserve calls on one key decided in one rate window,
\* exactly min(number of calls, limit) are granted; with a limit of 1 exactly
\* one call is granted and the others are refused, however the calls' read
\* and write steps interleave.
C9_NoDoubleGrant ==
  \A id \in ActiveIds(pool) : \A c \in 1..NumCallers :
    LET w == callers[c].win
    IN Cardinality(GrantedIn(id, w)) =
         Min(Cardinality(DecidedIn(id, w)), PlanLimit(pool[id].plan))

\* all callers reserved the same key of limit 1 in one window: one grant
C9_Witness ==
  \E id \in ActiveIds(pool) :
    /\ PlanLimit(pool[id].plan) = 1
    /\ DecidedIn(id, 0) = 1..NumCallers
    /\ Cardinality(GrantedIn(id, 0)) = 1

\* C10: POST /keys for an id that is already active, with a valid plan, sets
\* the plan of that one record to the lower-cased plan and leaves its
\* windowCount, windowStart and nextAllowedAt and every other record as they
\* were; when the record already has that plan nothing changes.
C10_RegisterUpdatesPlanOnly ==
  [][\A b \in K1Bodies :
       LET subId == Trim(OrElse(b.subscriptionId, b.id))
           plan == ToLowerCase(b.plan)
       IN (/\ PostKeys(b)
           /\ Len(calls') = Len(calls) + 1
           /\ pool[subId] /= NoKey
           /\ LET c == calls'[Len(calls')] IN c.ok \/ c.plan \notin Plans)
          => /\ resp'.status = 201
             /\ pool' = [pool EXCEPT ![subId].plan = plan]
             /\ pool[subId].plan = plan => pool' = pool
    ]_vars

\* a key with consumed permits whose plan was changed by a second POST /keys
C10_Witness ==
  /\ Len(HttpCalls) = 2
  /\ \A c \in Range(HttpCalls) : c.op = "register" /\ c.ok /\ c.id = "k1"
  /\ HttpCalls[1].plan /= HttpCalls[2].plan
  /\ pool["k1"].plan = HttpCalls[2].plan
  /\ pool["k1"].windowCount > 0

----------------------------------------------------------------------------
(* Deletion and visibility: claims C11 and C12 *)

\* C11: DELETE /keys/:id whose store call does not fail answers 200 "Key <id>
\* deleted" whether the key is active, already removed or was never known;
\* afterwards the key is absent and every other record is as it was, and a
\* deletion of an absent key leaves the pool exactly as it was, so a second
\* deletion succeeds like the first and changes nothing.
C11_DeleteIsIdempotent ==
  [][\A id \in Ids :
       (DeleteKeys(id) /\ resp'.status /= 500)
       => /\ resp' = Response(200, "deleted", id)
          /\ pool'[id] = NoKey
          /\ \A other \in Ids \ {id} : pool'[other] = pool[other]
          /\ pool[id] = NoKey => pool' = pool
    ]_vars

\* a key that granted a permit was deleted twice over HTTP, both times with
\* the answer 200
C11_Witness ==
  /\ Len(HttpCalls) = 2
  /\ \A c \in Range(HttpCalls) : c.op = "delete" /\ c.ok /\ c.id = "k1"
  /\ \E c \in 1..NumCallers :
       callers[c].result = "granted" /\ callers[c].id = "k1"
  /\ pool["k1"] = NoKey
  /\ resp = Response(200, "deleted", "k1")

AvailableIds(pl) == {k.id : k \in Range(getAvailableKeysSnapshot(pl))}

\* the last registerKey or deleteKey call on id that the store completed
LastCompleted(id) ==
  LET S == {n \in DOMAIN calls : calls[n].id = id /\ calls[n].ok}
  IN IF S = {} THEN 0 ELSE CHOOSE n \in S : \A k \in S : k <= n

Removed(id) == LastCompleted(id) > 0 /\ calls[LastCompleted(id)].op = "delete"

\* C12: from the completion of deleteKey(id) until the next completed
\* registerKey(id, plan), id is in the result of neither getAllKeysStatus()
\* nor getAvailableKeysSnapshot(), whatever else happens to the pool; the
\* registerKey that ends this creates a record with windowCount = 0 and a
\* window that starts at the time of the call.
C12_RemovedKeyNeverVisible ==
  [][\A id \in Ids :
       /\ Removed(id)' =>
            id \notin StatusIds(pool') /\ id \notin AvailableIds(pool')
       /\ (Removed(id) /\ ~Removed(id)') =>
            /\ id \in StatusIds(pool')
            /\ pool'[id] = FreshKey(calls'[Len(calls')].plan, now)
            /\ pool'[id].windowCount = 0
    ]_vars

\* a key that had granted a permit in the current window was deleted and
\* registered again: its counter is back at 0
C12_Witness ==
  /\ now = 0
  /\ Len(HttpCalls) = 2
  /\ HttpCalls[1].op = "delete" /\ HttpCalls[1].ok /\ HttpCalls[1].id = "k1"
  /\ HttpCalls[2].op = "register" /\ HttpCalls[2].ok /\ HttpCalls[2].id = "k1"
  /\ \E c \in 1..NumCallers :
       callers[c].result = "granted" /\ callers[c].id = "k1"
  /\ "k1" \in AvailableIds(pool)
  /\ pool["k1"].windowCount = 0

----------------------------------------------------------------------------
(* POST /keys: claim C13 *)

\* C13: POST /keys answers 400, calls registerKey not at all and leaves the
\* pool as it was when the id (subscriptionId, or else id, trimmed) is missing
\* or empty or the lower-cased plan is neither "pro" nor "ultimate"; otherwise
\* it calls registerKey exactly once, with the trimmed id and the lower-cased
\* plan, and answers 201 "Key <id> registered" (500 when the store fails).
C13_PostKeysValidates ==
  [][\A b \in AnyBodies :
       PostKeys(b) =>
         LET id == Trim(IF b.subscriptionId /= "" THEN b.subscriptionId ELSE b.id)
             plan == ToLowerCase(b.plan)
         IN IF id = "" \/ plan \notin {"pro", "ultimate"}
              THEN resp'.status = 400 /\ calls' = calls /\ pool' = pool
              ELSE /\ Len(calls') = Len(calls) + 1
                   /\ LET c == calls'[Len(calls')]
                      IN /\ c.op = "register" /\ c.id = id /\ c.plan = plan
                         /\ c.ok => /\ resp' = Response(201, "registered", id)
                                    /\ pool' = registerKey(pool, id, plan, now)
                         /\ ~c.ok => resp'.status = 500 /\ pool' = pool
    ]_vars

\* a request with a padded id and an upper-case plan was registered as
\* (k1, pro), and a later request was refused with 400
C13_Witness ==
  /\ Len(HttpCalls) = 1
  /\ HttpCalls[1] = Call("http", 0, "register", "k1", "pro", TRUE)
  /\ pool["k1"].plan = "pro"
  /\ resp.status = 400
  /\ resp.message = "plan must be pro or ultimate"

----------------------------------------------------------------------------
(* Configuration forms: claims C14 and C16 *)

\* the ids and plans that the entries of one form stand for: the last entry
\* of an id gives its plan, a missing plan is the default plan, every plan
\* other than "pro" is "ultimate"
EntryIds(form) == {Trim(e.id) : e \in Range(form)} \ {""}
EntryPlan(form, id, default) ==
  LET last == CHOOSE i \in DOMAIN form :
                /\ Trim(form[i].id) = id
                /\ \A j \in DOMAIN form : Trim(form[j].id) = id => j <= i
      given == IF form[last].plan = "" THEN default ELSE form[last].plan
  IN IF ToLowerCase(given) = "pro" THEN "pro" ELSE "ultimate"

DefaultOf(e) == IF e.defaultPlan = "" THEN "ultimate" ELSE e.defaultPlan

\* the desired state d is exactly what the entries of one form say
TakenFromEntries(d, form, default) ==
  /\ MapIds(d) = EntryIds(form)
  /\ \A id \in MapIds(d) : MapGet(d, id) = EntryPlan(form, id, default)
TakenFromList(d, list, default) ==
  /\ MapIds(d) = Range(list)
  /\ \A id \in MapIds(d) :
       MapGet(d, id) = IF ToLowerCase(default) = "pro" THEN "pro" ELSE "ultimate"

\* the desired state d is taken from the first form that counts as non-empty
TakenFromFirst(d, e, jsonNonEmpty, csvNonEmpty) ==
  IF jsonNonEmpty THEN TakenFromEntries(d, e.json, DefaultOf(e))
  ELSE IF csvNonEmpty THEN TakenFromEntries(d, e.csv, DefaultOf(e))
  ELSE TakenFromList(d, e.list, DefaultOf(e))

\* C14 as stated: the desired state of a pass comes from the first form that
\* holds any entry (JSON list, then id:plan list, then bare id list), and
\* from that form alone.
C14_FirstNonEmptyFormWins ==
  \A p \in DOMAIN passes :
    (passes[p].read /\ env.json /= NotJson) =>
      TakenFromFirst(passes[p].desired, env, env.json /= <<>>, env.csv /= <<>>)

\* C14 amended: the desired state of a pass comes from the first form that
\* holds an entry with a non-empty id, and from that form alone; a form whose
\* entries all lack an id counts as empty.
C14_FirstFormWithAnIdWins ==
  \A p \in DOMAIN passes :
    (passes[p].read /\ env.json /= NotJson) =>
      TakenFromFirst(passes[p].desired, env,
                     EntryIds(env.json) /= {}, EntryIds(env.csv) /= {})

\* a pass over a file whose JSON list names k1 and whose bare list names k2:
\* the desired state is k1 alone, and the pass has registered nothing for k2
C14_Witness ==
  /\ EntryIds(env.json) = {"k1"}
  /\ env.list = <<"k2">>
  /\ Len(passes) = 1
  /\ PassClean(1)
  /\ MapIds(passes[1].desired) = {"k1"}
  /\ ActiveIds(pool) = {"k1"}

\* C16: a pass that cannot read the .env file, or that finds a form it cannot
\* parse, goes on with an empty desired state: it makes no registerKey call.
C16_UnusableConfigMeansNoDesiredState ==
  \A p \in DOMAIN passes :
    (~passes[p].read \/ env.json = NotJson) =>
      /\ passes[p].desired = <<>>
      /\ CallsOf(p, "register") = <<>>

----------------------------------------------------------------------------
(* Batches: claim C15 *)

\* C15: a health cycle probes every key of its snapshot, and calls deleteKey
\* for every key whose probe was not valid, also after the probe or the
\* deleteKey of an earlier key has failed; a reconciliation pass that has
\* listed the pool calls registerKey for every desired id that is absent or
\* has another plan and deleteKey for every listed id that is not desired,
\* also after the registerKey or deleteKey of an earlier key has failed.
C15_BatchGoesOnAfterFailure ==
  /\ (hc.pc = "done" /\ hc.keys /= <<>>) =>
       \A id \in Range(hc.keys) :
         /\ hc.outcome[id] /= NoProbe
         /\ ~validateKey(hc.outcome[id]) =>
              \E c \in Range(HealthDeletes) : c.id = id
  /\ \A p \in DOMAIN passes :
       (passes[p].pc = "done" /\ passes[p].listed) =>
         /\ \A e \in ToRegister(passes[p]) :
              \E c \in Range(CallsOf(p, "register")) :
                c.id = e.id /\ c.plan = e.plan
         /\ \A id \in ToDelete(passes[p]) :
              \E c \in Range(CallsOf(p, "delete")) : c.id = id

\* a cycle in which the deleteKey of the first key failed and the second key
\* was still probed, then a pass in which the first registerKey failed and
\* the second was still called
C15_Witness ==
  /\ hc.pc = "done"
  /\ Len(hc.keys) = 2
  /\ hc.keys[1] \in hc.deleteFailed
  /\ hc.outcome[hc.keys[2]] /= NoProbe
  /\ \E p \in DOMAIN passes :
       /\ passes[p].pc = "done"
       /\ Len(CallsOf(p, "register")) = 2
       /\ ~CallsOf(p, "register")[1].ok

----------------------------------------------------------------------------
(* GET /key/available: claim C17 *)

\* C17: every entry of the keys of a GET /key/available answer carries
\* nextRequestInMs = max(nextAllowedAt - now, 0) for the nextAllowedAt of its
\* key and the time of the request: it is never negative, and it is 0 exactly
\* when nextAllowedAt is not after that time.
C17_NextRequestInMs ==
  [][(GetKeyAvailable /\ resp'.status = 200) =>
       /\ {e.id : e \in Range(resp'.keys)} = ActiveIds(pool)
       /\ \A e \in Range(resp'.keys) :
            LET nextAllowedAt == pool[e.id].nextAllowedAt
            IN /\ e.nextRequestInMs >= 0
               /\ e.nextRequestInMs >= nextAllowedAt - now
               /\ e.nextRequestInMs \in {0, nextAllowedAt - now}
               /\ e.nextRequestInMs = 0 <=> nextAllowedAt <= now
    ]_vars

\* an answer that lists one key that has to wait and one key whose
\* nextAllowedAt lies in the past
C17_Witness ==
  /\ resp.status = 200
  /\ Len(resp.keys) = 2
  /\ \E e \in Range(resp.keys) : e.nextRequestInMs > 0
  /\ \E e \in Range(resp.keys) :
       e.nextRequestInMs = 0 /\ e.nextRequestAllowedAt < now
  /\ \A e \in Range(resp.keys) : pool[e.id].nextAllowedAt = e.nextRequestAllowedAt
  /\ \A c \in 1..NumCallers : callers[c].pc = "idle"

----------------------------------------------------------------------------
(* Convergence: claim C18 *)

\* every pass has finished without a storage error and no debounce timeout
\* is pending
Quiescent ==
  /\ passes /= <<>>
  /\ \A p \in DOMAIN passes : PassClean(p)
  /\ timers = {}

\* C18: when the .env file has stopped changing and every pass that was
\* started has finished, the active keys and their plans are the desired
\* state of the .env file as it is now, however the passes overlapped.
C18_PoolConvergesToConfig ==
  Quiescent =>
    /\ ActiveIds(pool) = MapIds(desiredMapOf(env))
    /\ \A id \in ActiveIds(pool) : pool[id].plan = MapGet(desiredMapOf(env), id)

----------------------------------------------------------------------------
(* Health scheduler: claim C19 *)

CycleInFlight == hc.pc \in {"idle", "probe", "evict"}

\* the cycle has ended with every key of its snapshot probed and deleteKey
\* called for every key that was not valid
CycleCompleted ==
  /\ hc.pc = "done"
  /\ \A id \in Range(hc.keys) :
       /\ hc.outcome[id] /= NoProbe
       /\ ~validateKey(hc.outcome[id]) =>
            \E c \in Range(HealthDeletes) : c.id = id

\* C19: once the stop function returned by startScheduler has been called, no
\* health cycle starts any more, and the cycle that was in flight at that
\* moment loses none of its progress and runs to its end, probing and
\* evicting its remaining keys.
C19_StopKeepsCycleInFlight ==
  /\ [][/\ hc.stopAt /= "never" => hc'.cycles = hc.cycles
        /\ (hc.stopAt = "never" /\ hc'.stopAt /= "never") =>
             hc' = [hc EXCEPT !.task = hc'.task, !.stopAt = hc'.stopAt]
       ]_vars
  /\ (hc.stopAt /= "never" /\ CycleInFlight) ~> CycleCompleted

\* stop was called while the second cycle stood between two probes, and that
\* cycle went on to evict a key and ended
C19_Witness ==
  /\ hc.stopAt = "probe"
  /\ hc.task = "stopped"
  /\ hc.cycles = 2
  /\ CycleCompleted
  /\ hc.cleanedIds /= <<>>

----------------------------------------------------------------------------
(* Removal from the .env file: claim C20 *)

\* the desired state m without the ids of S
SameKeysExcept(after, before, S) ==
  /\ MapIds(after) = MapIds(before) \ S
  /\ \A id \in MapIds(after) : MapGet(after, id) = MapGet(before, id)

\* C20: a health cycle writes the .env file only when it has evicted a key,
\* and the desired state parsed from the file it wrote is the desired state
\* of the file before the write without the evicted ids: every other id keeps
\* its presence and its plan and no id appears.
C20_RemovalAffectsOnlyEvictedIds ==
  [][(hc.wrote = "no" /\ hc'.wrote /= "no") =>
       /\ hc.cleanedIds /= <<>>
       /\ hc'.wrote = "ok" =>
            SameKeysExcept(desiredMapOf(env'), desiredMapOf(env),
                           Range(hc.cleanedIds))
    ]_vars

====
